---- MODULE Spec2Model ----
(***************************************************************************)
(* PyMuPDF-performance: the timed, isolated execution harness              *)
(* main.multiprocessing_run, its worker fn2, and the measurement loop      *)
(* main.performance that calls it once per tool probe and once per test    *)
(* cell and then hands the report to github.addpush_json.                  *)
(*                                                                         *)
(* Python values are records with a "kind" field.  Times are in seconds.   *)
(* The parent process and the worker process interleave freely; the        *)
(* worker may stall for ever (a hang), die at any point (native crash,     *)
(* signal), and may or may not die of SIGTERM / SIGKILL once sent.         *)
(***************************************************************************)
EXTENDS Integers, Sequences, FiniteSets, TLC

(* ------------------------------ bounds -------------------------------- *)

\* One-second ticks of scheduling slack allowed per harness invocation, on
\* top of the jumps of the clock to the deadline of a bounded wait.
MaxSlack == 1

(* ------------------------- program constants -------------------------- *)

ProbeTimeout == 30
DefaultTimeout == 300
GraceWait == 10

\* Signal numbers: Process.terminate() sends SIGTERM, Process.kill() sends
\* SIGKILL; exitcode is -N for a worker ended by signal N.
SIGTERM == 15
SIGKILL == 9
\* Exit codes of a worker that dies on its own: a native crash (SIGSEGV).
CrashCodes == {-11}
\* The values of the timeout argument of performance: 0 stands for None
\* (not given), the other for a --timeout given on the command line.
TimeoutArgs == {0, 5}

(* --------------------------- Python values ---------------------------- *)

PyNone == [kind |-> "None"]
PyInt(n) == [kind |-> "int", v |-> n]
\* An instance of an Exception subclass.
PyExc(type, msg) == [kind |-> "exc", type |-> type, msg |-> msg]
\* An instance of a BaseException subclass that is not an Exception:
\* SystemExit(code), as raised by sys.exit(code).
PySystemExit(code) == [kind |-> "baseexc", type |-> "SystemExit", code |-> code]
\* A str, as the sequence of its fragments.
PyStr(parts) == [kind |-> "str", parts |-> parts]
\* An object pickle cannot serialise (an open document, a generator).
PyHandle == [kind |-> "handle"]

isinstance_Exception(v) == v.kind = "exc"

\* Decimal text of the integers that get formatted.
IntStr(n) ==
    CASE n = 0 -> "0"
      [] n = 1 -> "1"
      [] n = -11 -> "-11"
      [] n = -SIGTERM -> "-15"
      [] n = -SIGKILL -> "-9"
      [] OTHER -> "<int>"

\* repr(), str() and type() of the values that get formatted.
Repr(v) ==
    CASE v.kind = "None" -> <<"None">>
      [] v.kind = "int" -> <<IntStr(v.v)>>
      [] v.kind = "exc" -> <<v.type, "('", v.msg, "')">>
      [] OTHER -> <<"<object>">>

Str(v) ==
    CASE v.kind = "exc" -> <<v.msg>>
      [] OTHER -> Repr(v)

TypeRepr(v) ==
    CASE v.kind = "exc" -> <<"<class '", v.type, "'>">>
      [] OTHER -> <<"<class '", v.kind, "'>">>

\* bool(v), for the values line 230 tests.
Truthy(v) ==
    CASE v.kind = "None" -> FALSE
      [] v.kind = "int" -> v.v # 0
      [] v.kind = "str" -> \E k \in 1..Len(v.parts) : v.parts[k] # ""
      [] OTHER -> TRUE

\* Exception classes whose constructor needs arguments that are not kept in
\* .args: pickle.dump accepts an instance, pickle.load fails to rebuild it.
BadInitTypes == {"CustomError"}
\* Exception classes whose instances hold what pickle.dump rejects (a lock,
\* an open document).
BadDumpTypes == {"DocumentError"}

(* ------------------------------ pickle -------------------------------- *)

Picklable(v) ==
    /\ v.kind \in {"None", "int", "exc"}
    /\ v.kind = "exc" => v.type \notin BadDumpTypes

\* One item of a pickle stream: an opcode and its operand.
Op(op, arg) == [op |-> op, arg |-> arg]

\* pickle.dump: the byte stream, as a sequence of opcodes with operands.
Dumps(v) ==
    CASE v.kind = "None" ->
            <<Op("PROTO", PyNone), Op("NONE", PyNone), Op("STOP", PyNone)>>
      [] v.kind = "int" ->
            <<Op("PROTO", PyNone), Op("BININT", v), Op("STOP", PyNone)>>
      [] v.kind = "exc" ->
            <<Op("PROTO", PyNone), Op("GLOBAL", PyStr(<<v.type>>)),
              Op("UNICODE", PyStr(<<v.msg>>)), Op("REDUCE", PyNone),
              Op("STOP", PyNone)>>

\* pickle.load of the stream s: [ok, val] where val is the value rebuilt, or
\* the exception raised.
Loads(s) ==
    IF Len(s) = 0
    THEN [ok |-> FALSE, val |-> PyExc("EOFError", "Ran out of input")]
    ELSE IF s[Len(s)].op # "STOP" \/ s[1].op # "PROTO" \/ Len(s) < 3
    THEN [ok |-> FALSE,
          val |-> PyExc("UnpicklingError", "pickle data was truncated")]
    ELSE CASE s[2].op = "NONE" -> [ok |-> TRUE, val |-> PyNone]
           [] s[2].op = "BININT" -> [ok |-> TRUE, val |-> s[2].arg]
           [] s[2].op = "GLOBAL" ->
                IF s[2].arg.parts[1] \in BadInitTypes
                THEN [ok |-> FALSE,
                      val |-> PyExc("TypeError", "missing required argument")]
                ELSE [ok |-> TRUE,
                      val |-> PyExc(s[2].arg.parts[1], s[3].arg.parts[1])]
           [] OTHER -> [ok |-> FALSE,
                        val |-> PyExc("UnpicklingError", "invalid load key")]

(* ------------------------- the unit of work --------------------------- *)

\* What fn() may do once it runs to an end (it may also never end, or the
\* process may die under it): return a value, or raise.
ReturnValues == {PyNone, PyInt(1), PyHandle}
RaisedErrors == {PyExc("ZeroDivisionError", "division by zero"),
                 PyExc("CustomError", "bad page"),
                 PyExc("DocumentError", "cannot open"),
                 PySystemExit(0), PySystemExit(1)}
FnOutcomes == [how : {"return"}, val : ReturnValues]
                \cup [how : {"raise"}, val : RaisedErrors]
\* The behaviours of the functions under test when two cells are run.
FewOutcomes == {[how |-> "return", val |-> PyInt(1)],
                [how |-> "raise",
                 val |-> PyExc("ZeroDivisionError", "division by zero")],
                [how |-> "raise", val |-> PyExc("CustomError", "bad page")]}
NoOutcome == [how |-> "none", val |-> PyNone]

(* ------------------------------- state -------------------------------- *)

VARIABLES
    \* performance(): arguments and locals
    internal_check, \* argument internal_check
    timeout,        \* argument timeout (0: None)
    toolnames,      \* the set toolnames, in its iteration order
    pathnames,      \* argument paths: the input files, in order
    fns,            \* what the functions run in a worker may do
    ppc,            \* position: "probe", "cells", "publish", "save", "done", "raised"
    ti,             \* number of tools probed so far
    ci,             \* number of test cells done so far (local i)
    results,        \* results['toolversions'], results['data']
    raised,         \* the exception that left performance, "" if none
    pushed,         \* github.addpush_json pushed the report
    written,        \* the report was saved locally
    \* multiprocessing_run(): arguments and locals (t, e, ret, ee are also the
    \* locals of performance the returned tuple is assigned to)
    pc,             \* position of the parent: "idle", "L371", "L374", ...
    fnTimeout,      \* argument timeout
    t0, t, e, ret, ee,
    deadline,       \* end of the bounded wait p.join(...) in progress
    pexit,          \* p.exitcode as last polled by the parent
    \* the worker process p running fn2
    wpc,            \* "none", "fn", "dump", "flush", "exit", "exited"
    wret,           \* fn2's local ret
    wexit,          \* exit status of the process, PyNone while it has not exited
    sigterm,        \* SIGTERM was sent to the worker
    sigkill,        \* SIGKILL was sent to the worker
    \* temp_file: one open file shared by parent and worker after the fork
    file,           \* content of the file
    fpos,           \* offset of the shared open file description
    buf,            \* the worker's unflushed write buffer
    \* time.perf_counter()
    now,            \* reading of the clock (its origin is arbitrary: it is
                    \* taken to be 0 at each call of multiprocessing_run)
    ticks,          \* one-second ticks spent in this invocation
    \* history of the invocation in progress
    outcome,        \* what fn() did in the worker
    polled,         \* p.exitcode as read at line 377
    early,          \* the worker had exited when p.join(timeout) returned
    nreads,         \* number of pickle.load calls on temp_file
    \* github.addpush_json()
    gh_key,         \* os.environ.get('PYMUPDF_PERFORMANCE_RESULTS_RW')
    gpc,            \* position: "none", "L38", "try", "finally", "returned", "raised"
    gstep,          \* number of steps of the try block that have succeeded
    ssh_id,         \* the file ssh_id: "absent", "foreign" (it was there
                    \* before the call), "created" (by this call)
    pending         \* the exception in flight when the finally block runs

perfVars == <<internal_check, timeout, toolnames, pathnames, fns, ppc, ti,
              ci, results, raised, pushed, written>>
runVars == <<pc, fnTimeout, t0, t, e, ret, ee, deadline, pexit>>
workerVars == <<wpc, wret, wexit, sigterm, sigkill>>
fileVars == <<file, fpos, buf>>
clockVars == <<now, ticks>>
histVars == <<outcome, polled, early, nreads>>
ghVars == <<gh_key, gpc, gstep, ssh_id, pending>>
vars == <<perfVars, runVars, workerVars, fileVars, clockVars, histVars,
          ghVars>>

Alive == wpc \notin {"none", "exited"}
Waiting == pc \in {"L374", "L383", "L386"}

(* ------------------------ the worker process -------------------------- *)

\* Fn2Try without the except clause: whatever fn() raises leaves fn2.
Fn2Try_NoExcept(o) ==
    IF o.how = "return" THEN [caught |-> TRUE, ret |-> o.val]
    ELSE [caught |-> FALSE, ret |-> o.val]

\* The try/except around fn() in fn2: a returned value and a raised Exception
\* both end up in ret; any other raised object leaves fn2.
Fn2Try(o) ==
    IF o.how = "return" THEN [caught |-> TRUE, ret |-> o.val]
    ELSE IF isinstance_Exception(o.val) THEN [caught |-> TRUE, ret |-> o.val]
    ELSE [caught |-> FALSE, ret |-> o.val]

\* The exit code multiprocessing gives a worker whose target raised x.
BootstrapExitCode(x) ==
    IF x.kind = "baseexc" /\ x.type = "SystemExit" THEN x.code ELSE 1

\* How many leading items of a stream pickle.dump may pass on to the file
\* before flush() is called: none (all buffered) or all but the last.
WriteThrough(s) == {0, Len(s) - 1}

WorkerRuns == Alive /\ pc \notin {"idle", "returned"} /\ ppc # "raised"

\* The worker process ends with exit code c; what it had buffered is lost.
WorkerEnds(c) ==
    /\ wpc' = "exited"
    /\ wexit' = PyInt(c)
    /\ buf' = <<>>

\* fn2, lines 360-363: ret = fn(), or the Exception it raised.
WorkerFn ==
    /\ WorkerRuns /\ wpc = "fn"
    /\ \E o \in fns :
         /\ outcome' = o
         /\ IF Fn2Try(o).caught
            THEN /\ wret' = Fn2Try(o).ret
                 /\ wpc' = "dump"
                 /\ UNCHANGED <<wexit, buf>>
            ELSE /\ WorkerEnds(BootstrapExitCode(o.val))
                 /\ UNCHANGED wret
    /\ UNCHANGED <<internal_check, timeout, toolnames, pathnames, fns, ppc, ti,
                   ci, results, raised, pushed, written, pc, fnTimeout,
                   t0, t, e, ret, ee, deadline, pexit, sigterm, sigkill,
                   file, fpos, now, ticks, polled, early, nreads,
                   gh_key, gpc, gstep, ssh_id, pending>>

\* fn2, line 369: pickle.dump(ret, temp_file).
WorkerDump ==
    /\ WorkerRuns /\ wpc = "dump"
    /\ IF Picklable(wret)
       THEN \E k \in WriteThrough(Dumps(wret)) :
              /\ file' = SubSeq(file, 1, fpos) \o SubSeq(Dumps(wret), 1, k)
              /\ fpos' = fpos + k
              /\ buf' = SubSeq(Dumps(wret), k + 1, Len(Dumps(wret)))
              /\ wpc' = "flush"
              /\ UNCHANGED wexit
       ELSE /\ WorkerEnds(BootstrapExitCode(PyExc("PicklingError", "")))
            /\ UNCHANGED <<file, fpos>>
    /\ UNCHANGED <<internal_check, timeout, toolnames, pathnames, fns, ppc, ti,
                   ci, results, raised, pushed, written, pc, fnTimeout,
                   t0, t, e, ret, ee, deadline, pexit, wret, sigterm,
                   sigkill, now, ticks, outcome, polled, early, nreads,
                   gh_key, gpc, gstep, ssh_id, pending>>

\* WorkerFlush with the flush left out: fn2 returns with its buffer unwritten.
WorkerFlush_Skipped ==
    /\ WorkerRuns /\ wpc = "flush"
    /\ wpc' = "exit"
    /\ UNCHANGED <<internal_check, timeout, toolnames, pathnames, fns, ppc, ti,
                   ci, results, raised, pushed, written, pc, fnTimeout,
                   t0, t, e, ret, ee, deadline, pexit, wret, wexit,
                   sigterm, sigkill, file, fpos, buf, now, ticks,
                   outcome, polled, early, nreads, gh_key, gpc, gstep,
                   ssh_id, pending>>

\* fn2, line 370: temp_file.flush().
WorkerFlush ==
    /\ WorkerRuns /\ wpc = "flush"
    /\ file' = SubSeq(file, 1, fpos) \o buf
    /\ fpos' = fpos + Len(buf)
    /\ buf' = <<>>
    /\ wpc' = "exit"
    /\ UNCHANGED <<internal_check, timeout, toolnames, pathnames, fns, ppc, ti,
                   ci, results, raised, pushed, written, pc, fnTimeout,
                   t0, t, e, ret, ee, deadline, pexit, wret, wexit,
                   sigterm, sigkill, now, ticks, outcome, polled, early,
                   nreads, gh_key, gpc, gstep, ssh_id, pending>>

\* fn2 has returned: the process exits with code 0.
WorkerExit ==
    /\ WorkerRuns /\ wpc = "exit"
    /\ WorkerEnds(0)
    /\ UNCHANGED <<internal_check, timeout, toolnames, pathnames, fns, ppc, ti,
                   ci, results, raised, pushed, written, pc, fnTimeout,
                   t0, t, e, ret, ee, deadline, pexit, wret, sigterm,
                   sigkill, file, fpos, now, ticks, outcome, polled,
                   early, nreads, gh_key, gpc, gstep, ssh_id, pending>>

\* The process dies on its own at any point (a crash in a native library).
WorkerCrash ==
    /\ WorkerRuns
    /\ \E c \in CrashCodes : WorkerEnds(c)
    /\ UNCHANGED <<internal_check, timeout, toolnames, pathnames, fns, ppc, ti,
                   ci, results, raised, pushed, written, pc, fnTimeout,
                   t0, t, e, ret, ee, deadline, pexit, wret, sigterm,
                   sigkill, file, fpos, now, ticks, outcome, polled,
                   early, nreads, gh_key, gpc, gstep, ssh_id, pending>>

\* The process dies of a signal the parent sent (it may also ignore SIGTERM,
\* or sit in an uninterruptible wait, and live on).
WorkerSignalled ==
    /\ WorkerRuns
    /\ \/ sigterm /\ WorkerEnds(-SIGTERM)
       \/ sigkill /\ WorkerEnds(-SIGKILL)
    /\ UNCHANGED <<internal_check, timeout, toolnames, pathnames, fns, ppc, ti,
                   ci, results, raised, pushed, written, pc, fnTimeout,
                   t0, t, e, ret, ee, deadline, pexit, wret, sigterm,
                   sigkill, file, fpos, now, ticks, outcome, polled,
                   early, nreads, gh_key, gpc, gstep, ssh_id, pending>>

(* --------------------------- the clock -------------------------------- *)

\* A second goes by while the parent waits in p.join(...).
Tick ==
    /\ Waiting /\ ticks < MaxSlack
    /\ now' = now + 1
    /\ ticks' = ticks + 1
    /\ UNCHANGED <<internal_check, timeout, toolnames, pathnames, fns, ppc, ti,
                   ci, results, raised, pushed, written, pc, fnTimeout,
                   t0, t, e, ret, ee, deadline, pexit, wpc, wret, wexit,
                   sigterm, sigkill, file, fpos, buf, outcome, polled,
                   early, nreads, gh_key, gpc, gstep, ssh_id, pending>>

\* The time left of the bounded wait in progress goes by.
TimePasses ==
    /\ Waiting /\ now < deadline
    /\ now' = deadline
    /\ UNCHANGED <<internal_check, timeout, toolnames, pathnames, fns, ppc, ti,
                   ci, results, raised, pushed, written, pc, fnTimeout,
                   t0, t, e, ret, ee, deadline, pexit, wpc, wret, wexit,
                   sigterm, sigkill, file, fpos, buf, ticks, outcome,
                   polled, early, nreads, gh_key, gpc, gstep, ssh_id,
                   pending>>

(* ----------------------- multiprocessing_run -------------------------- *)

\* JoinReturns of a p.join() without a timeout.
JoinReturns_NoTimeout == wexit # PyNone

\* p.join(...) returns: the worker has exited or the wait has run out.
JoinReturns == wexit # PyNone \/ now >= deadline

\* IsTimeout taking a worker that failed for one that is still running.
IsTimeout_FailedToo(code) == code = PyNone \/ code.v # 0

\* Line 377: the test that selects the timeout branch.
IsTimeout(code) == code = PyNone

\* StillAlive taking every worker for exited once it was signalled.
StillAlive_Never(code) == FALSE

\* StillAlive escalating without looking at the exit code.
StillAlive_Always(code) == TRUE

\* Lines 384 and 387: the test that escalates after a grace wait.
StillAlive(code) == code = PyNone

\* Lines 397-398: a non-zero exit code replaces e.
ExitOverride(e0, code) == IF code.v # 0 THEN code ELSE e0

\* Line 390: the offset temp_file.seek() moves to before the read.
SeekOffset == 0

\* ChannelRead with the except clause swallowing the failure of pickle.load.
ChannelRead_Swallow(f, pos) ==
    LET r == Loads(SubSeq(f, pos + 1, Len(f)))
    IN  IF r.ok THEN [e |-> PyInt(0), ret |-> r.val]
                ELSE [e |-> PyInt(0), ret |-> PyNone]

\* ChannelRead without temp_file.seek(0): the read starts where the worker's
\* writes left the shared offset.
ChannelRead_NoSeek(f, pos) ==
    LET r == Loads(SubSeq(f, fpos + 1, Len(f)))
    IN  IF r.ok THEN [e |-> PyInt(0), ret |-> r.val]
                ELSE [e |-> r.val, ret |-> PyNone]

\* Lines 390-396: what pickle.load reads from offset pos of the file, and the
\* (e, ret) it leaves.
ChannelRead(f, pos) ==
    LET r == Loads(SubSeq(f, pos + 1, Len(f)))
    IN  IF r.ok THEN [e |-> PyInt(0), ret |-> r.val]
                ELSE [e |-> r.val, ret |-> PyNone]

\* ErrorSummary without the test of ret.
ErrorSummary_NoRetTest(e0, ret0) ==
    IF e0 = PyNone THEN PyStr(<<"Timeout">>)
    ELSE IF e0 # PyInt(0)
    THEN PyStr(<<"multiprocessing.Process failure ", "e=">> \o Repr(e0))
    ELSE PyInt(0)

\* Lines 399-406: ee.
ErrorSummary(e0, ret0) ==
    IF e0 = PyNone THEN PyStr(<<"Timeout">>)
    ELSE IF e0 # PyInt(0)
    THEN PyStr(<<"multiprocessing.Process failure ", "e=">> \o Repr(e0))
    ELSE IF isinstance_Exception(ret0)
    THEN PyStr(TypeRepr(ret0) \o <<": ">> \o Str(ret0))
    ELSE PyInt(0)

\* Line 375: t.
Elapsed(clock, start) == clock - start

\* Lines 371-374: t0 is read, the worker is started, p.join(timeout) begins.
RunStart ==
    /\ pc = "L371"
    /\ t0' = now
    /\ wpc' = "fn"
    /\ deadline' = now + fnTimeout
    /\ pc' = "L374"
    /\ UNCHANGED <<internal_check, timeout, toolnames, pathnames, fns, ppc, ti,
                   ci, results, raised, pushed, written, fnTimeout, t,
                   e, ret, ee, pexit, wret, wexit, sigterm, sigkill,
                   file, fpos, buf, now, ticks, outcome, polled, early,
                   nreads, gh_key, gpc, gstep, ssh_id, pending>>

\* Lines 374-375: p.join(timeout) returns and t is taken.
Join1Return ==
    /\ pc = "L374" /\ JoinReturns
    /\ pexit' = wexit
    /\ early' = (wexit # PyNone)
    /\ t' = Elapsed(now, t0)
    /\ pc' = "L377"
    /\ UNCHANGED <<internal_check, timeout, toolnames, pathnames, fns, ppc, ti,
                   ci, results, raised, pushed, written, fnTimeout, t0,
                   e, ret, ee, deadline, wpc, wret, wexit, sigterm,
                   sigkill, file, fpos, buf, now, ticks, outcome,
                   polled, nreads, gh_key, gpc, gstep, ssh_id, pending>>

\* Lines 377-381: p.exitcode is polled; None selects the timeout branch.
Poll377 ==
    /\ pc = "L377"
    /\ pexit' = wexit
    /\ polled' = wexit
    /\ IF IsTimeout(wexit)
       THEN e' = PyNone /\ ret' = PyNone /\ pc' = "L382"
       ELSE pc' = "L390" /\ UNCHANGED <<e, ret>>
    /\ UNCHANGED <<internal_check, timeout, toolnames, pathnames, fns, ppc, ti,
                   ci, results, raised, pushed, written, fnTimeout, t0,
                   t, ee, deadline, wpc, wret, wexit, sigterm, sigkill,
                   file, fpos, buf, now, ticks, outcome, early, nreads,
                   gh_key, gpc, gstep, ssh_id, pending>>

\* Lines 382-383: p.terminate(), and p.join(10) begins.
Terminate ==
    /\ pc = "L382"
    /\ sigterm' = TRUE
    /\ deadline' = now + GraceWait
    /\ pc' = "L383"
    /\ UNCHANGED <<internal_check, timeout, toolnames, pathnames, fns, ppc, ti,
                   ci, results, raised, pushed, written, fnTimeout, t0,
                   t, e, ret, ee, pexit, wpc, wret, wexit, sigkill,
                   file, fpos, buf, now, ticks, outcome, polled, early,
                   nreads, gh_key, gpc, gstep, ssh_id, pending>>

\* Line 383: p.join(10) returns.
Join2Return ==
    /\ pc = "L383" /\ JoinReturns
    /\ pexit' = wexit
    /\ pc' = "L384"
    /\ UNCHANGED <<internal_check, timeout, toolnames, pathnames, fns, ppc, ti,
                   ci, results, raised, pushed, written, fnTimeout, t0,
                   t, e, ret, ee, deadline, wpc, wret, wexit, sigterm,
                   sigkill, file, fpos, buf, now, ticks, outcome,
                   polled, early, nreads, gh_key, gpc, gstep, ssh_id,
                   pending>>

\* Line 384: p.exitcode is polled after the first grace wait.
Poll384 ==
    /\ pc = "L384"
    /\ pexit' = wexit
    /\ pc' = IF StillAlive(wexit) THEN "L385" ELSE "L399"
    /\ UNCHANGED <<internal_check, timeout, toolnames, pathnames, fns, ppc, ti,
                   ci, results, raised, pushed, written, fnTimeout, t0,
                   t, e, ret, ee, deadline, wpc, wret, wexit, sigterm,
                   sigkill, file, fpos, buf, now, ticks, outcome,
                   polled, early, nreads, gh_key, gpc, gstep, ssh_id,
                   pending>>

\* Lines 385-386: p.kill(), and p.join(10) begins.
Kill ==
    /\ pc = "L385"
    /\ sigkill' = TRUE
    /\ deadline' = now + GraceWait
    /\ pc' = "L386"
    /\ UNCHANGED <<internal_check, timeout, toolnames, pathnames, fns, ppc, ti,
                   ci, results, raised, pushed, written, fnTimeout, t0,
                   t, e, ret, ee, pexit, wpc, wret, wexit, sigterm,
                   file, fpos, buf, now, ticks, outcome, polled, early,
                   nreads, gh_key, gpc, gstep, ssh_id, pending>>

\* Line 386: p.join(10) returns.
Join3Return ==
    /\ pc = "L386" /\ JoinReturns
    /\ pexit' = wexit
    /\ pc' = "L387"
    /\ UNCHANGED <<internal_check, timeout, toolnames, pathnames, fns, ppc, ti,
                   ci, results, raised, pushed, written, fnTimeout, t0,
                   t, e, ret, ee, deadline, wpc, wret, wexit, sigterm,
                   sigkill, file, fpos, buf, now, ticks, outcome,
                   polled, early, nreads, gh_key, gpc, gstep, ssh_id,
                   pending>>

\* Poll387 without the raise: the invocation returns its timeout record.
Poll387_NoRaise ==
    /\ pc = "L387"
    /\ pexit' = wexit
    /\ pc' = "L399"
    /\ UNCHANGED <<internal_check, timeout, toolnames, pathnames, fns, ppc, ti,
                   ci, results, raised, pushed, written, fnTimeout, t0,
                   t, e, ret, ee, deadline, wpc, wret, wexit, sigterm,
                   sigkill, file, fpos, buf, now, ticks, outcome,
                   polled, early, nreads, gh_key, gpc, gstep, ssh_id,
                   pending>>

\* Lines 387-388: p.exitcode is polled after the second grace wait; None
\* raises, and nothing in performance catches the exception.
Poll387 ==
    /\ pc = "L387"
    /\ pexit' = wexit
    /\ IF StillAlive(wexit)
       THEN /\ pc' = "raised"
            /\ ppc' = "raised"
            /\ raised' = "Cannot terminate multiprocess"
       ELSE /\ pc' = "L399"
            /\ UNCHANGED <<ppc, raised>>
    /\ UNCHANGED <<internal_check, timeout, toolnames, pathnames, fns, ti, ci,
                   results, pushed, written, fnTimeout, t0, t, e, ret,
                   ee, deadline, wpc, wret, wexit, sigterm, sigkill,
                   file, fpos, buf, now, ticks, outcome, polled, early,
                   nreads, gh_key, gpc, gstep, ssh_id, pending>>

\* Lines 390-398: temp_file.seek(0), pickle.load, the exit code.
LoadResult ==
    /\ pc = "L390"
    /\ nreads' = nreads + 1
    /\ fpos' = Len(file)
    /\ ret' = ChannelRead(file, SeekOffset).ret
    /\ e' = ExitOverride(ChannelRead(file, SeekOffset).e, pexit)
    /\ pc' = "L399"
    /\ UNCHANGED <<internal_check, timeout, toolnames, pathnames, fns, ppc, ti,
                   ci, results, raised, pushed, written, fnTimeout, t0,
                   t, ee, deadline, pexit, wpc, wret, wexit, sigterm,
                   sigkill, file, buf, now, ticks, outcome, polled,
                   early, gh_key, gpc, gstep, ssh_id, pending>>

\* Classify with the end timestamp taken on return.
Classify_EndTimestamp ==
    /\ pc = "L399"
    /\ ee' = ErrorSummary(e, ret)
    /\ t' = Elapsed(now, t0)
    /\ pc' = "returned"
    /\ UNCHANGED <<internal_check, timeout, toolnames, pathnames, fns, ppc, ti,
                   ci, results, raised, pushed, written, fnTimeout, t0,
                   e, ret, deadline, pexit, wpc, wret, wexit, sigterm,
                   sigkill, file, fpos, buf, now, ticks, outcome,
                   polled, early, nreads, gh_key, gpc, gstep, ssh_id,
                   pending>>

\* Lines 399-407: ee is worked out and (t, e, ret, ee) returned.
Classify ==
    /\ pc = "L399"
    /\ ee' = ErrorSummary(e, ret)
    /\ pc' = "returned"
    /\ UNCHANGED <<internal_check, timeout, toolnames, pathnames, fns, ppc, ti,
                   ci, results, raised, pushed, written, fnTimeout, t0,
                   t, e, ret, deadline, pexit, wpc, wret, wexit,
                   sigterm, sigkill, file, fpos, buf, now, ticks,
                   outcome, polled, early, nreads, gh_key, gpc, gstep,
                   ssh_id, pending>>

(* ---------------------------- performance ---------------------------- *)

\* The functions get_version_<toolname> and do_<testname>_<toolname> that
\* exist among the globals, for the tools of this model.
VersionFns == {"pdfrw"}
DoFns == {<<"copy", "pdfrw">>}

\* The arguments tests and paths, and the orders in which the set toolnames
\* may iterate; "nosuch" is a --tool with no functions.
TestNames == <<"copy", "render">>
PathNames == <<"adobe.pdf">>
TwoPaths == <<"adobe.pdf", "pandas.pdf">>
ToolOrders == {<<"pdfrw">>, <<"pdfrw", "nosuch">>, <<"nosuch", "pdfrw">>}

\* The values of PYMUPDF_PERFORMANCE_RESULTS_RW in the environment.
EnvKeys == {PyNone, PyStr(<<"key">>)}

\* all_tests(), lines 237-246: the cells, in the order they are yielded.
AllTests(tools) ==
    LET nP == Len(pathnames)
        nT == Len(tools)
        all == [k \in 1..(Len(TestNames) * nP * nT) |->
                  [testname |-> TestNames[((k - 1) \div (nP * nT)) + 1],
                   path |-> pathnames[(((k - 1) \div nT) % nP) + 1],
                   toolname |-> tools[((k - 1) % nT) + 1]]]
        HasFn(c) == <<c.testname, c.toolname>> \in DoFns
    IN  SelectSeq(all, HasFn)

\* Lines 260-267: the timeout of a test cell.
Timeout2 == IF timeout # 0 THEN timeout ELSE DefaultTimeout

\* ToolVersion storing the returned value whatever the error summary.
ToolVersion_IgnoreError(ee0, version) == version

\* Line 230: what is stored as the version of a tool.
ToolVersion(ee0, version) == IF Truthy(ee0) THEN ee0 ELSE version

\* No invocation of multiprocessing_run is in progress: no temp_file, no
\* Process object, no history.
NoRun ==
    /\ fnTimeout' = 0
    /\ t0' = 0 /\ t' = 0 /\ e' = PyNone /\ ret' = PyNone
    /\ deadline' = 0 /\ pexit' = PyNone
    /\ wpc' = "none" /\ wret' = PyNone /\ wexit' = PyNone
    /\ sigterm' = FALSE /\ sigkill' = FALSE
    /\ file' = <<>> /\ fpos' = 0 /\ buf' = <<>>
    /\ now' = 0 /\ ticks' = 0
    /\ outcome' = NoOutcome /\ polled' = PyNone /\ early' = FALSE
    /\ nreads' = 0

\* Lines 223-229: the next tool has a get_version function; it is probed.
ProbeCall ==
    /\ ppc = "probe" /\ pc = "idle" /\ ti < Len(toolnames)
    /\ toolnames[ti + 1] \in VersionFns
    /\ pc' = "L371"
    /\ fnTimeout' = ProbeTimeout
    /\ UNCHANGED <<internal_check, timeout, toolnames, pathnames, fns, ppc, ti,
                   ci, results, raised, pushed, written, t0, t, e, ret,
                   ee, deadline, pexit, wpc, wret, wexit, sigterm,
                   sigkill, file, fpos, buf, now, ticks, outcome,
                   polled, early, nreads, gh_key, gpc, gstep, ssh_id,
                   pending>>

\* Lines 223-227: the next tool has no get_version function.
ProbeMissing ==
    /\ ppc = "probe" /\ pc = "idle" /\ ti < Len(toolnames)
    /\ toolnames[ti + 1] \notin VersionFns
    /\ ppc' = "raised"
    /\ raised' = "Need function get_version"
    /\ UNCHANGED <<internal_check, timeout, toolnames, pathnames, fns, ti, ci,
                   results, pushed, written, pc, fnTimeout, t0, t, e,
                   ret, ee, deadline, pexit, wpc, wret, wexit, sigterm,
                   sigkill, file, fpos, buf, now, ticks, outcome,
                   polled, early, nreads, gh_key, gpc, gstep, ssh_id,
                   pending>>

\* Lines 229-230: the probe returned; its version or error is stored.
ProbeRecord ==
    /\ ppc = "probe" /\ pc = "returned"
    /\ results' = [results EXCEPT !.toolversions =
                     Append(@, <<toolnames[ti + 1], ToolVersion(ee, ret)>>)]
    /\ ti' = ti + 1
    /\ pc' = "idle"
    /\ NoRun
    /\ UNCHANGED <<internal_check, timeout, toolnames, pathnames, fns, ppc, ci,
                   raised, pushed, written, ee, ghVars>>

\* Lines 232-253: all tools are probed; the test loop starts.
StartCells ==
    /\ ppc = "probe" /\ pc = "idle" /\ ti = Len(toolnames)
    /\ ppc' = "cells"
    /\ ci' = 0
    /\ UNCHANGED <<internal_check, timeout, toolnames, pathnames, fns, ti,
                   results, raised, pushed, written, pc, fnTimeout, t0,
                   t, e, ret, ee, deadline, pexit, wpc, wret, wexit,
                   sigterm, sigkill, file, fpos, buf, now, ticks,
                   outcome, polled, early, nreads, gh_key, gpc, gstep,
                   ssh_id, pending>>

\* Lines 280-287: the entry of the cell in progress.
CellEntry(cell, t1, ee1) ==
    [testname |-> cell.testname, path |-> cell.path,
     toolname |-> cell.toolname, t |-> t1, e |-> ee1]

\* Lines 254-258 and 278-287: with internal_check no test is run.
CellInternal ==
    /\ ppc = "cells" /\ pc = "idle" /\ ci < Len(AllTests(toolnames))
    /\ internal_check
    /\ results' = [results EXCEPT !.data =
                     Append(@, CellEntry(AllTests(toolnames)[ci + 1], 1, ee))]
    /\ ci' = ci + 1
    /\ UNCHANGED <<internal_check, timeout, toolnames, pathnames, fns, ppc, ti,
                   raised, pushed, written, pc, fnTimeout, t0, t, e,
                   ret, ee, deadline, pexit, wpc, wret, wexit, sigterm,
                   sigkill, file, fpos, buf, now, ticks, outcome,
                   polled, early, nreads, gh_key, gpc, gstep, ssh_id,
                   pending>>

\* Lines 254-269: the next test cell is run in the harness.
CellCall ==
    /\ ppc = "cells" /\ pc = "idle" /\ ci < Len(AllTests(toolnames))
    /\ ~internal_check
    /\ pc' = "L371"
    /\ fnTimeout' = Timeout2
    /\ UNCHANGED <<internal_check, timeout, toolnames, pathnames, fns, ppc, ti,
                   ci, results, raised, pushed, written, t0, t, e, ret,
                   ee, deadline, pexit, wpc, wret, wexit, sigterm,
                   sigkill, file, fpos, buf, now, ticks, outcome,
                   polled, early, nreads, gh_key, gpc, gstep, ssh_id,
                   pending>>

\* CellRecord giving up the loop at the first cell that failed.
CellRecord_AbortOnFailure ==
    /\ ppc = "cells" /\ pc = "returned"
    /\ IF Truthy(ee)
       THEN /\ ppc' = "raised" /\ raised' = "CellFailed"
            /\ UNCHANGED <<results, ci>>
       ELSE /\ results' = [results EXCEPT !.data =
                     Append(@, CellEntry(AllTests(toolnames)[ci + 1], t, ee))]
            /\ ci' = ci + 1
            /\ UNCHANGED <<ppc, raised>>
    /\ pc' = "idle"
    /\ NoRun
    /\ UNCHANGED <<internal_check, timeout, toolnames, pathnames, fns, ti,
                   pushed, written, ee, ghVars>>

\* Lines 269 and 278-287: the harness returned; the cell's entry is appended.
CellRecord ==
    /\ ppc = "cells" /\ pc = "returned"
    /\ results' = [results EXCEPT !.data =
                     Append(@, CellEntry(AllTests(toolnames)[ci + 1], t, ee))]
    /\ ci' = ci + 1
    /\ pc' = "idle"
    /\ NoRun
    /\ UNCHANGED <<internal_check, timeout, toolnames, pathnames, fns, ppc, ti,
                   raised, pushed, written, ee, ghVars>>

\* Lines 289-302: the loop is over; github.addpush_json(results, ...) is
\* called, and reads PYMUPDF_PERFORMANCE_RESULTS_RW from the environment
\* (github.py line 38).
Publish ==
    /\ ppc = "cells" /\ pc = "idle" /\ ci = Len(AllTests(toolnames))
    /\ ppc' = "publish"
    /\ gpc' = "L39"
    /\ gh_key' \in EnvKeys
    /\ UNCHANGED <<internal_check, timeout, toolnames, pathnames, fns, ti, ci,
                   results, raised, pushed, written, pc, fnTimeout, t0,
                   t, e, ret, ee, deadline, pexit, wpc, wret, wexit,
                   sigterm, sigkill, file, fpos, buf, now, ticks,
                   outcome, polled, early, nreads, gstep, ssh_id,
                   pending>>

\* Lines 304-316: the report is saved locally.
Save ==
    /\ ppc = "save"
    /\ written' = TRUE
    /\ ppc' = "done"
    /\ UNCHANGED <<internal_check, timeout, toolnames, pathnames, fns, ti, ci,
                   results, raised, pushed, pc, fnTimeout, t0, t, e,
                   ret, ee, deadline, pexit, wpc, wret, wexit, sigterm,
                   sigkill, file, fpos, buf, now, ticks, outcome,
                   polled, early, nreads, gh_key, gpc, gstep, ssh_id,
                   pending>>

(* ------------------------ github.addpush_json ------------------------- *)

\* KeyMissing never finding the token missing.
KeyMissing_Never(k) == FALSE

\* github.py line 39: no access token in the environment.
KeyMissing(k) == k = PyNone

\* github.py lines 51-75: the steps of the try block, in order.
TrySteps ==
    <<"os.open", "os.write", "git clone", "git config user.email",
      "git config user.name", "json.dump", "ln -sf", "git add", "git commit",
      "git push">>

\* What a step of the try block raises when it fails: os.open with O_EXCL
\* finds the file already there or cannot create it; run() uses check=1.
StepErrors(s) ==
    IF s = "os.open" THEN {"FileExistsError", "PermissionError"}
    ELSE IF s \in {"os.write", "json.dump"} THEN {"OSError"}
    ELSE {"CalledProcessError"}

\* github.py line 79: os.remove(ssh_id_path) fails when there is no such
\* file, and may fail (permissions, a busy file) when there is one.
RemoveOutcomes(f) == IF f = "absent" THEN {FALSE} ELSE BOOLEAN

\* github.py lines 80-81: the handler of a failed os.remove calls log(),
\* a name github.py does not define.
RemoveHandler(pend) == "NameError"

\* github.py lines 77-83: what leaves addpush_json after the finally block;
\* "" is a normal return.
Propagates(pend, removed) == IF removed THEN pend ELSE RemoveHandler(pend)

\* github.py lines 39-41: without the token addpush_json returns quietly.
AddPushNoKey ==
    /\ ppc = "publish" /\ gpc = "L39"
    /\ KeyMissing(gh_key)
    /\ gpc' = "returned"
    /\ ppc' = "save"
    /\ UNCHANGED <<internal_check, timeout, toolnames, pathnames, fns, ti, ci,
                   results, raised, pushed, written, pc, fnTimeout, t0,
                   t, e, ret, ee, deadline, pexit, wpc, wret, wexit,
                   sigterm, sigkill, file, fpos, buf, now, ticks,
                   outcome, polled, early, nreads, gh_key, gstep,
                   ssh_id, pending>>

\* github.py lines 43-45: the try block is entered.
AddPushBegin ==
    /\ ppc = "publish" /\ gpc = "L39"
    /\ ~KeyMissing(gh_key)
    /\ gpc' = "try"
    /\ UNCHANGED <<internal_check, timeout, toolnames, pathnames, fns, ppc, ti,
                   ci, results, raised, pushed, written, pc, fnTimeout,
                   t0, t, e, ret, ee, deadline, pexit, wpc, wret, wexit,
                   sigterm, sigkill, file, fpos, buf, now, ticks,
                   outcome, polled, early, nreads, gh_key, gstep,
                   ssh_id, pending>>

\* github.py lines 51-75: the next step of the try block succeeds.
AddPushStep ==
    /\ gpc = "try" /\ gstep < Len(TrySteps)
    /\ TrySteps[gstep + 1] = "os.write" => gh_key.kind = "str"
    /\ gstep' = gstep + 1
    /\ ssh_id' = IF TrySteps[gstep + 1] = "os.open" THEN "created" ELSE ssh_id
    /\ pushed' = (pushed \/ TrySteps[gstep + 1] = "git push")
    /\ UNCHANGED <<internal_check, timeout, toolnames, pathnames, fns, ppc, ti,
                   ci, results, raised, written, pc, fnTimeout, t0, t,
                   e, ret, ee, deadline, pexit, wpc, wret, wexit,
                   sigterm, sigkill, file, fpos, buf, now, ticks,
                   outcome, polled, early, nreads, gh_key, gpc,
                   pending>>

\* github.py lines 51-75: the next step of the try block raises; control
\* goes to the finally block.  gh_key.encode raises when gh_key is no str.
AddPushStepFails ==
    /\ gpc = "try" /\ gstep < Len(TrySteps)
    /\ \E err \in StepErrors(TrySteps[gstep + 1]) :
         /\ pending' = IF TrySteps[gstep + 1] = "os.write"
                          /\ gh_key.kind # "str"
                       THEN "AttributeError" ELSE err
         /\ ssh_id' = IF err = "FileExistsError" THEN "foreign" ELSE ssh_id
    /\ gpc' = "finally"
    /\ UNCHANGED <<internal_check, timeout, toolnames, pathnames, fns, ppc, ti,
                   ci, results, raised, pushed, written, pc, fnTimeout,
                   t0, t, e, ret, ee, deadline, pexit, wpc, wret, wexit,
                   sigterm, sigkill, file, fpos, buf, now, ticks,
                   outcome, polled, early, nreads, gh_key, gstep>>

\* github.py line 75 to 77: the try block is over.
AddPushTryDone ==
    /\ gpc = "try" /\ gstep = Len(TrySteps)
    /\ gpc' = "finally"
    /\ UNCHANGED <<internal_check, timeout, toolnames, pathnames, fns, ppc, ti,
                   ci, results, raised, pushed, written, pc, fnTimeout,
                   t0, t, e, ret, ee, deadline, pexit, wpc, wret, wexit,
                   sigterm, sigkill, file, fpos, buf, now, ticks,
                   outcome, polled, early, nreads, gh_key, gstep,
                   ssh_id, pending>>

\* github.py lines 77-83: the finally block removes ssh_id, and
\* addpush_json returns or raises; performance (main.py line 302) has no
\* handler around the call.
AddPushFinally ==
    /\ gpc = "finally"
    /\ \E removed \in RemoveOutcomes(ssh_id) :
         /\ ssh_id' = IF removed THEN "absent" ELSE ssh_id
         /\ IF Propagates(pending, removed) = ""
            THEN gpc' = "returned" /\ ppc' = "save" /\ UNCHANGED raised
            ELSE /\ gpc' = "raised" /\ ppc' = "raised"
                 /\ raised' = Propagates(pending, removed)
    /\ UNCHANGED <<internal_check, timeout, toolnames, pathnames, fns, ti, ci,
                   results, pushed, written, pc, fnTimeout, t0, t, e,
                   ret, ee, deadline, pexit, wpc, wret, wexit, sigterm,
                   sigkill, file, fpos, buf, now, ticks, outcome,
                   polled, early, nreads, gh_key, gstep, pending>>

(* --------------------------- specification ---------------------------- *)

\* The state when performance() is entered with the given argument paths
\* and one of the given timeouts, the functions get_version_<toolname> and
\* do_<testname>_<toolname> behaving in one of the given ways.
InitWith(paths, timeouts, outcomes) ==
    /\ internal_check \in BOOLEAN
    /\ timeout \in timeouts
    /\ toolnames \in ToolOrders
    /\ pathnames = paths
    /\ fns = outcomes
    /\ ppc = "probe" /\ ti = 0 /\ ci = 0
    /\ results = [toolversions |-> <<>>, data |-> <<>>]
    /\ raised = "" /\ pushed = FALSE /\ written = FALSE
    /\ pc = "idle" /\ fnTimeout = 0
    /\ t0 = 0 /\ t = 0 /\ e = PyNone /\ ret = PyNone /\ ee = PyNone
    /\ deadline = 0 /\ pexit = PyNone
    /\ wpc = "none" /\ wret = PyNone /\ wexit = PyNone
    /\ sigterm = FALSE /\ sigkill = FALSE
    /\ file = <<>> /\ fpos = 0 /\ buf = <<>>
    /\ now = 0 /\ ticks = 0
    /\ outcome = NoOutcome /\ polled = PyNone /\ early = FALSE
    /\ nreads = 0
    /\ gh_key = PyNone /\ gpc = "none" /\ gstep = 0
    /\ ssh_id = "absent" /\ pending = ""

Init == InitWith(PathNames, TimeoutArgs, FnOutcomes)

Next ==
    \/ ProbeCall \/ ProbeMissing \/ ProbeRecord \/ StartCells
    \/ CellInternal \/ CellCall \/ CellRecord \/ Publish \/ Save
    \/ RunStart \/ Join1Return \/ Poll377 \/ Terminate \/ Join2Return
    \/ Poll384 \/ Kill \/ Join3Return \/ Poll387 \/ LoadResult \/ Classify
    \/ WorkerFn \/ WorkerDump \/ WorkerFlush \/ WorkerExit \/ WorkerCrash
    \/ WorkerSignalled
    \/ Tick \/ TimePasses
    \/ AddPushNoKey \/ AddPushBegin \/ AddPushStep \/ AddPushStepFails
    \/ AddPushTryDone \/ AddPushFinally

Spec == Init /\ [][Next]_vars

\* performance() called with two input files and a fixed timeout: two test
\* cells are run one after the other.
InitCells == InitWith(TwoPaths, TimeoutArgs \ {0}, FewOutcomes)

SpecCells == InitCells /\ [][Next]_vars

\* The steps of the parent process in multiprocessing_run.
ParentStep ==
    \/ RunStart \/ Join1Return \/ Poll377 \/ Terminate \/ Join2Return
    \/ Poll384 \/ Kill \/ Join3Return \/ Poll387 \/ LoadResult \/ Classify

\* The parent process is scheduled and time goes by; nothing is assumed of
\* the worker, which may hang and ignore signals.
LiveSpec == Spec /\ WF_vars(ParentStep) /\ WF_vars(TimePasses)

(* ------------------------------ claims -------------------------------- *)

Returned == pc = "returned"
CannotTerminate == "Cannot terminate multiprocess"
TimeoutOutcome == e = PyNone /\ ret = PyNone /\ ee = PyStr(<<"Timeout">>)
\* The ee of a worker failure or a deserialization failure e0.
FailureText(e0) ==
    PyStr(<<"multiprocessing.Process failure ", "e=">> \o Repr(e0))
\* The ee of a unit of work that raised x.
RaisedText(x) == PyStr(<<"<class '", x.type, "'>", ": ", x.msg>>)
\* The values a unit of work returns that pickle serialises.
PlainValues == {v \in ReturnValues : Picklable(v)}

\* C1: multiprocessing_run returns the timeout outcome (e = None, ret = None,
\* ee = 'Timeout') if and only if p.exitcode was None when polled after
\* p.join(timeout); a worker that had exited when the wait ended is never
\* classified as timeout, and one that was still running when polled is
\* never classified as success, worker failure or deserialize error.
C1_TimeoutIffNotExited ==
    Returned =>
        /\ TimeoutOutcome <=> polled = PyNone
        /\ e = PyNone <=> polled = PyNone
        /\ early => ~TimeoutOutcome
        /\ polled = PyNone => nreads = 0 /\ ee = PyStr(<<"Timeout">>)

C1_Witness ==
    Returned /\ polled = PyNone /\ TimeoutOutcome /\ wexit = PyInt(-SIGTERM)

\* C2, as claimed: the end timestamp of t is taken when the worker's
\* lifecycle has concluded, so that on return t is the whole span since t0,
\* grace waits included.
C2_ElapsedSpansLifecycle == Returned => t = now - t0

\* C2, amended: t is taken when p.join(timeout) returns, before p.exitcode is
\* polled and before terminate and kill: until terminate is called t is the
\* span since t0; on the timeout path t is the timeout plus scheduling slack,
\* and when kill was needed the span since t0 exceeds t by the grace wait.
C2_ElapsedEndsAtJoin ==
    /\ pc \in {"L377", "L382", "L390"} => t = now - t0
    /\ Returned /\ polled = PyNone =>
         t >= fnTimeout /\ t <= fnTimeout + ticks /\ now - t0 >= t
    /\ Returned /\ sigkill => now - t0 >= t + GraceWait

C2_Witness ==
    Returned /\ polled = PyNone /\ sigkill /\ t = fnTimeout
        /\ now - t0 = fnTimeout + GraceWait + GraceWait

\* C3: after a timeout the worker is reclaimed in a fixed order: terminate
\* first (only on the timeout branch, before any kill), then a wait of at
\* most GraceWait seconds; kill only after terminate and only if the poll
\* after that wait found the worker alive, then a second wait of at most
\* GraceWait seconds; the fatal error only if the poll after the second wait
\* finds the worker alive.
C3_EscalationOrder ==
    [][ /\ (sigterm' /\ ~sigterm) =>
              pc = "L382" /\ polled = PyNone /\ ~sigkill /\ ~sigkill'
                /\ pc' = "L383" /\ deadline' = now + GraceWait
        /\ (sigkill' /\ ~sigkill) =>
              pc = "L385" /\ sigterm /\ pexit = PyNone
                /\ pc' = "L386" /\ deadline' = now + GraceWait
        /\ (raised' = CannotTerminate /\ raised # CannotTerminate) =>
              pc = "L387" /\ sigterm /\ sigkill /\ wexit = PyNone
        /\ (pc \in {"L383", "L386"} /\ pc' # pc) =>
              (wexit # PyNone \/ now >= deadline)
        /\ pc' \in {"L383", "L386"} => deadline' <= now' + GraceWait
      ]_vars

C3_Witness ==
    Returned /\ sigterm /\ sigkill /\ wexit = PyInt(-SIGKILL)

\* C4: when the poll after the second grace wait finds the worker alive,
\* multiprocessing_run raises instead of returning a record and the
\* exception leaves performance; from then on no worker is spawned, no entry
\* is added to the results, and the report is neither pushed nor written.
C4_FatalPropagates ==
    /\ [](raised = CannotTerminate =>
            /\ ppc = "raised" /\ pc = "raised"
            /\ wexit = PyNone /\ sigterm /\ sigkill
            /\ ~pushed /\ ~written
            /\ Len(results.data) = ci /\ Len(results.toolversions) = ti)
    /\ [][ /\ (pc = "L387" /\ wexit = PyNone /\ pc' # pc) =>
                 pc' = "raised" /\ ppc' = "raised"
                   /\ raised' = CannotTerminate /\ results' = results
           /\ raised = CannotTerminate =>
                 results' = results /\ wpc' = wpc /\ pushed' = pushed
                   /\ written' = written /\ ppc' = ppc
         ]_vars

C4_Witness ==
    raised = CannotTerminate /\ ppc = "raised" /\ ti = 1
        /\ Len(results.toolversions) = 1 /\ Len(results.data) = 0

\* C5: in every returned tuple ee is 0 if and only if e is 0 and ret is not
\* an Exception instance, e is 0 if and only if the worker exited with code
\* 0 and the channel deserialized, and an ee that is not 0 is a non-empty
\* string.
C5_SummarySentinel ==
    Returned =>
        /\ ee = PyInt(0) <=> (e = PyInt(0) /\ ~isinstance_Exception(ret))
        /\ e = PyInt(0) <=> (polled = PyInt(0) /\ Loads(file).ok)
        /\ ee # PyInt(0) => ee.kind = "str" /\ Truthy(ee)

C5_Witness ==
    Returned /\ e = PyInt(0) /\ isinstance_Exception(ret) /\ ee # PyInt(0)

\* C6, as claimed: whenever the worker has exited with a non-zero code when
\* polled, the record is a worker failure: e is the exit code, ee names it,
\* and ret is None whatever the result channel holds.
C6_FailureHasNoValue ==
    (Returned /\ polled # PyNone /\ polled # PyInt(0)) =>
        e = polled /\ ee = FailureText(polled) /\ ret = PyNone

\* C7: when the worker exited with code 0 and the channel cannot be
\* deserialized, multiprocessing_run does not raise: the read is followed
\* by the classification, e is the exception pickle.load raised, ret is
\* None and ee is a non-empty string that names the exception.
C7_DeserializeError ==
    /\ [](Returned /\ polled = PyInt(0) /\ ~Loads(file).ok =>
            /\ e = Loads(file).val /\ isinstance_Exception(e)
            /\ ret = PyNone
            /\ ee = FailureText(e) /\ Truthy(ee))
    /\ [][(pc = "L390" /\ pc' # pc) =>
            pc' = "L399" /\ raised' = raised /\ ppc' = ppc]_vars

C7_Witness ==
    Returned /\ polled = PyInt(0) /\ file = <<>>
        /\ e = PyExc("EOFError", "Ran out of input") /\ ret = PyNone

\* An error the worker can carry to the parent: an Exception instance that
\* pickle serialises and rebuilds.
Portable(x) ==
    isinstance_Exception(x) /\ Picklable(x) /\ Loads(Dumps(x)).ok

\* C8, as claimed: whatever error E (an Exception instance) the unit of work
\* raises, the worker catches it, writes it and exits with code 0, so that a
\* worker that did not crash and is found exited has code 0 and the record
\* is e = 0, ret = E, ee = E's type and message.
C8_EveryErrorCaptured ==
    (Returned /\ outcome.how = "raise" /\ isinstance_Exception(outcome.val)
        /\ polled # PyNone /\ polled.v \notin CrashCodes) =>
        /\ polled = PyInt(0) /\ e = PyInt(0)
        /\ ret = outcome.val
        /\ Truthy(ee) /\ ee.parts[2] = outcome.val.type

\* C8, amended: an error E that is an Exception instance which pickle
\* serialises and rebuilds never leaves the worker: the worker's own exit
\* code is 0, it exits with E written and flushed, and the record of a
\* worker found exited with code 0 is e = 0, ret = E, ee = E's type and
\* message.
C8_PortableErrorCaptured ==
    (outcome.how = "raise" /\ Portable(outcome.val)) =>
        /\ wexit \in {PyNone, PyInt(0), PyInt(-SIGTERM), PyInt(-SIGKILL)}
                        \cup {PyInt(c) : c \in CrashCodes}
        /\ wexit = PyInt(0) => file = Dumps(outcome.val) /\ buf = <<>>
        /\ Returned /\ polled = PyInt(0) =>
             e = PyInt(0) /\ ret = outcome.val /\ ee = RaisedText(outcome.val)

C8_Witness ==
    Returned /\ outcome.how = "raise" /\ Portable(outcome.val)
        /\ e = PyInt(0) /\ ret = outcome.val /\ ee = RaisedText(ret)

\* C9: when the unit of work returned a plain value v and the worker is
\* found exited with code 0, multiprocessing_run returns ret = v, e = 0 and
\* ee = 0: the channel gives back what was written to it.
C9_RoundTrip ==
    (Returned /\ outcome.how = "return" /\ outcome.val \in PlainValues
        /\ polled = PyInt(0)) =>
        ret = outcome.val /\ e = PyInt(0) /\ ee = PyInt(0)

C9_Witness ==
    Returned /\ outcome = [how |-> "return", val |-> PyInt(1)]
        /\ ret = PyInt(1) /\ e = PyInt(0) /\ ee = PyInt(0)

\* C10: the parent reads the channel at most once, only after it has seen
\* that the worker exited, and never on the timeout path; and a worker seen
\* to exit with code 0 has left the channel either untouched or holding
\* its one complete, flushed write.
C10_ReadAfterExit ==
    /\ nreads <= 1
    /\ nreads = 1 => pexit # PyNone /\ wexit # PyNone /\ polled = pexit
    /\ (sigterm \/ polled = PyNone) => nreads = 0
    /\ pc = "L390" => pexit = wexit /\ pexit # PyNone
    /\ wexit = PyInt(0) =>
         /\ buf = <<>>
         /\ IF Fn2Try(outcome).caught THEN file = Dumps(wret)
                                       ELSE file = <<>>

C10_Witness ==
    pc = "L399" /\ nreads = 1 /\ pexit = PyInt(0) /\ Len(file) > 0
        /\ file = Dumps(wret) /\ ret = wret


\* The entry performance has just appended to results['data'].
LastEntry(res) == res.data[Len(res.data)]
NeedVersionFn == "Need function get_version"

\* C11, as claimed: the field e of the entry appended for a cell that was run
\* is None when the cell timed out, the non-zero exit code when the worker
\* failed, 0 when the cell succeeded, and a string when the channel did not
\* deserialize or the unit of work raised.
C11_EntryErrorField ==
    [][(ppc = "cells" /\ pc = "returned" /\ pc' = "idle") =>
         /\ polled = PyNone => LastEntry(results').e = PyNone
         /\ (polled # PyNone /\ polled # PyInt(0)) =>
               LastEntry(results').e = polled
         /\ (polled = PyInt(0) /\ e = PyInt(0) /\ ~isinstance_Exception(ret))
               => LastEntry(results').e = PyInt(0)
         /\ (polled = PyInt(0)
               /\ (e # PyInt(0) \/ isinstance_Exception(ret)))
               => LastEntry(results').e.kind = "str"
      ]_vars

\* C12: as long as no invocation raises the fatal error, every cell yielded
\* by all_tests gets one invocation of the harness and one entry, in the
\* order of all_tests: the entries are those of the cells done so far, a
\* returned invocation is followed by its cell's entry and the next cell
\* whatever its outcome, a cell is only started when the entries of all
\* cells before it are there, and performance goes on to publish with as
\* many entries as cells.
C12_OneEntryPerCell ==
    /\ [](/\ Len(results.data) = ci
          /\ ci <= Len(AllTests(toolnames))
          /\ \A k \in 1..Len(results.data) :
               /\ results.data[k].testname = AllTests(toolnames)[k].testname
               /\ results.data[k].path = AllTests(toolnames)[k].path
               /\ results.data[k].toolname = AllTests(toolnames)[k].toolname
          /\ ppc \in {"publish", "save", "done"} =>
               Len(results.data) = Len(AllTests(toolnames))
          /\ (ppc = "raised" /\ gpc = "none") =>
               raised \in {CannotTerminate, NeedVersionFn}
          /\ (ppc = "cells" /\ pc \notin {"idle", "raised"}) =>
               ci < Len(AllTests(toolnames)))
    /\ [][ /\ (ppc = "cells" /\ pc = "returned" /\ pc' # pc) =>
                /\ ppc' = "cells" /\ raised' = raised /\ pc' = "idle"
                /\ ci' = ci + 1
                /\ results'.data = Append(results.data, LastEntry(results'))
           /\ (ppc = "cells" /\ pc = "idle" /\ pc' # pc) =>
                pc' = "L371" /\ ci' = ci /\ results' = results
           /\ (ppc = "cells" /\ ci' # ci) => ci' = ci + 1
         ]_vars

C12_Witness ==
    /\ ppc = "publish" /\ Len(AllTests(toolnames)) = 2
    /\ Len(results.data) = 2
    /\ results.data[1].path = "adobe.pdf" /\ results.data[2].path = "pandas.pdf"
    /\ results.data[1].e = PyStr(<<"Timeout">>)
    /\ results.data[2].e = PyInt(0)

\* C13: multiprocessing_run returns only when its worker has exited, so that
\* no worker is alive when performance is between two invocations or past
\* the loop, and a worker is only started when none is there.
C13_NoOverlap ==
    /\ [](/\ Returned => (~Alive /\ wexit # PyNone)
          /\ pc = "idle" => wpc = "none"
          /\ ppc \in {"publish", "save", "done"} => ~Alive)
    /\ [][ /\ (pc' = "idle" /\ pc # "idle") => (pc = "returned" /\ ~Alive)
           /\ (wpc' = "fn" /\ wpc # "fn") => (pc = "L371" /\ wpc = "none")
         ]_vars

C13_Witness ==
    Returned /\ polled = PyNone /\ sigterm /\ ~sigkill
        /\ wexit = PyInt(-SIGTERM) /\ ti = 1

\* C14: when PYMUPDF_PERFORMANCE_RESULTS_RW is not set, addpush_json returns
\* at once: no key file is created, no step of the try block (git command or
\* results file) is run, nothing is raised, and performance goes on to save
\* the report locally.
C14_NoKeyNoOp ==
    /\ []((gpc # "none" /\ gh_key = PyNone) =>
            /\ gpc \in {"L39", "returned"}
            /\ ssh_id = "absent" /\ gstep = 0 /\ ~pushed
            /\ pending = "" /\ raised = ""
            /\ gpc = "returned" => ppc \in {"save", "done"}
            /\ ppc = "done" => written)
    /\ [][(gpc = "L39" /\ gh_key = PyNone /\ gpc' # gpc) =>
            gpc' = "returned" /\ ppc' = "save"]_vars

C14_Witness ==
    ppc = "done" /\ gpc = "returned" /\ gh_key = PyNone /\ written
        /\ ~pushed /\ ssh_id = "absent" /\ gstep = 0
        /\ Len(results.data) = 1

\* The order of the positions of multiprocessing_run.
Rank(p) ==
    CASE p = "L371" -> 1 [] p = "L374" -> 2 [] p = "L377" -> 3
      [] p = "L382" -> 4 [] p = "L383" -> 5 [] p = "L384" -> 6
      [] p = "L385" -> 7 [] p = "L386" -> 8 [] p = "L387" -> 9
      [] p = "L390" -> 10 [] p = "L399" -> 11 [] OTHER -> 12

\* C15: whatever the worker does, an invocation of multiprocessing_run that
\* has started ends by returning or raising; the parent only moves forward,
\* so it waits at most three times (lines 374, 383, 386), and each wait ends
\* no later than its deadline of timeout or GraceWait seconds.
C15_InvocationEnds ==
    /\ (pc = "L371") ~> (pc \in {"returned", "raised"})
    /\ [][ /\ (pc \notin {"idle", "returned", "raised"} /\ pc' # pc) =>
                Rank(pc') > Rank(pc)
           /\ (pc' = "L374" /\ pc # pc') => deadline' = now' + fnTimeout
           /\ (pc' \in {"L383", "L386"} /\ pc # pc') =>
                deadline' = now' + GraceWait
         ]_vars
    /\ [](Waiting => now <= deadline + MaxSlack)

C15_Witness ==
    pc = "raised" /\ Alive /\ wexit = PyNone /\ sigterm /\ sigkill
        /\ now = t0 + fnTimeout + GraceWait + GraceWait

\* C16, as claimed: with internal_check no worker is spawned for a test cell,
\* and every entry is the pretend result t = 1, e = 0, whatever the probes
\* of the tool versions gave.
C16_InternalCheckPretends ==
    internal_check =>
        /\ ppc = "cells" => (pc = "idle" /\ wpc = "none")
        /\ \A k \in 1..Len(results.data) :
             results.data[k].t = 1 /\ results.data[k].e = PyInt(0)

\* C17: the tools are probed one after the other before any test cell, each
\* once, with a timeout of ProbeTimeout seconds; every returned probe adds
\* one entry for its tool, the returned value when the probe succeeded and
\* the error summary string otherwise, and the loop goes on; a tool without
\* get_version function raises with no worker started for it and no cell
\* run.
C17_ProbeEveryTool ==
    /\ [](/\ Len(results.toolversions) = ti
          /\ \A k \in 1..ti : results.toolversions[k][1] = toolnames[k]
          /\ ppc = "probe" =>
               /\ results.data = <<>> /\ ci = 0
               /\ pc # "idle" =>
                    fnTimeout = ProbeTimeout /\ toolnames[ti + 1] \in VersionFns
          /\ ppc \notin {"probe", "raised"} => ti = Len(toolnames)
          /\ Len(results.data) > 0 => ti = Len(toolnames))
    /\ [][ /\ (ppc = "probe" /\ pc = "returned" /\ pc' # pc) =>
                /\ ppc' = "probe" /\ raised' = raised /\ ti' = ti + 1
                /\ LET v == results'.toolversions[ti + 1][2]
                   IN  IF polled = PyInt(0) /\ e = PyInt(0)
                            /\ ~isinstance_Exception(ret)
                       THEN v = ret
                       ELSE v = ee /\ v.kind = "str" /\ Truthy(v)
           /\ (raised' = NeedVersionFn /\ raised # NeedVersionFn) =>
                /\ pc = "idle" /\ wpc = "none" /\ pc' = pc /\ wpc' = wpc
                /\ toolnames[ti + 1] \notin VersionFns
                /\ results' = results /\ results.data = <<>>
         ]_vars

C17_Witness ==
    ppc = "cells" /\ ti = 1
        /\ results.toolversions = <<<<"pdfrw", PyStr(<<"Timeout">>)>>>>

\* C18, as claimed: once the key file has been created, addpush_json ends
\* with the file removed, and what it raises is the exception of the step
\* that failed (nothing when every step succeeded).
C18_KeyFileRemoved ==
    (gpc \in {"returned", "raised"} /\ gstep >= 1) =>
        ssh_id = "absent" /\ raised = pending
====
